---- MODULE Spec2Model ----
(***************************************************************************)
(* Model of src/src/App.tsx: the truck travel-time estimator               *)
(* (calculateTruckDuration), the duration formatter (formatDuration) and   *)
(* the search handler (handleSearch with searchLocation and getRoute).     *)
(*                                                                         *)
(* JavaScript numbers are modelled as exact rationals <<num, den>> with    *)
(* den > 0, kept in lowest terms.  On the distance grids used here         *)
(* (multiples of 1/Scale km up to MaxKm, whole kilometres elsewhere) the   *)
(* exact value and the IEEE-754 double computed by the code round to the   *)
(* same whole minute.  Off these grids the double can fall just below a    *)
(* half that the exact value reaches (61.25 km: 103 instead of 104).       *)
(***************************************************************************)
EXTENDS Integers, Sequences, FiniteSets, TLC

VARIABLES queue, call, prev,
          pc, loading, error, route, routeInfo,
          fromLoc, toLoc, routingCalled, routingFailed, estimatorCalled

estVars == <<queue, call, prev>>
appVars == <<pc, loading, error, route, routeInfo,
             fromLoc, toLoc, routingCalled, routingFailed, estimatorCalled>>
vars == <<queue, call, prev, pc, loading, error, route, routeInfo,
          fromLoc, toLoc, routingCalled, routingFailed, estimatorCalled>>

(***************************************************************************)
(* Bounds of the model.                                                    *)
(***************************************************************************)
\* distances of the single-call specification are multiples of 1/Scale km
Scale == 10
\* largest distance of the single-call specification, in km
MaxKm == 800
\* largest distance (whole km) of the two-call specification
MaxPairKm == 120
\* largest whole number of minutes handed to formatDuration directly
MaxMinutes == 600
\* largest route length (whole km) the routing service answers with
MaxRouteKm == 120

(***************************************************************************)
(* JavaScript number arithmetic on exact rationals.                        *)
(***************************************************************************)
RECURSIVE GCD(_, _)
GCD(a, b) == IF b = 0 THEN a ELSE GCD(b, a % b)

Abs(x) == IF x < 0 THEN 0 - x ELSE x

Rat(n, d) ==
    LET g == GCD(Abs(n), d)
    IN  <<n \div g, d \div g>>

Num(k) == <<k, 1>>

Add(a, b) ==
    LET g == GCD(a[2], b[2])
    IN  Rat(a[1] * (b[2] \div g) + b[1] * (a[2] \div g), a[2] * (b[2] \div g))

Mul(a, b) ==
    LET x == Rat(a[1], b[2])
        y == Rat(b[1], a[2])
    IN  <<x[1] * y[1], x[2] * y[2]>>

\* a / b for b > 0
Div(a, b) == Mul(a, <<b[2], b[1]>>)

Gt(a, k) == a[1] > k * a[2]
Lt(a, k) == a[1] < k * a[2]
Le(a, k) == a[1] <= k * a[2]

\* Math.floor
MathFloor(a) == a[1] \div a[2]

\* Math.round: the nearest integer, a half rounds towards +Infinity
MathRound(a) == (2 * a[1] + a[2]) \div (2 * a[2])

(***************************************************************************)
(* calculateTruckDuration                                                  *)
(***************************************************************************)
truckSpeeds ==
    [motorway |-> 80, trunk |-> 60, primary |-> 50,
     secondary |-> 40, residential |-> 30]

timeFactors ==
    [peakHours |-> Rat(14, 10), normal |-> Rat(12, 10), nighttime |-> Rat(11, 10)]

\* a bug that charges the full city-access delay on every trip under 50 km
truckFactorsAlwaysTwenty(distance) ==
    [loadingUnloading |-> IF Gt(distance, 50) THEN 30 ELSE 20,
     cityAccess       |-> 20,
     weightStations   |-> 15]

truckFactors(distance) ==
    [loadingUnloading |-> IF Gt(distance, 50) THEN 30 ELSE 20,
     cityAccess       |-> IF Gt(distance, 30) THEN 20 ELSE 10,
     weightStations   |-> 15]

\* a bug that moves exactly 50 km and exactly 100 km to the faster tier
baseSpeedInclusive(distance) ==
    IF ~Lt(distance, 100) THEN truckSpeeds.motorway
    ELSE IF ~Lt(distance, 50) THEN truckSpeeds.trunk
    ELSE truckSpeeds.primary

baseSpeed(distance) ==
    IF Gt(distance, 100) THEN truckSpeeds.motorway
    ELSE IF Gt(distance, 50) THEN truckSpeeds.trunk
    ELSE truckSpeeds.primary

drivingHours(distance) == Div(distance, Num(baseSpeed(distance)))

\* a bug that counts a started 4.5-hour segment as a completed one
restStopsCeil(distance) ==
    0 - MathFloor(Div(Mul(Num(-1), drivingHours(distance)), Rat(45, 10)))

restStops(distance) == MathFloor(Div(drivingHours(distance), Rat(45, 10)))

restTime(distance) == restStops(distance) * 45

shortHaulUpTo == 15

\* a bug that subtracts the loading time instead of adding it
shortHaulSubtracted(distance) ==
    LET baseMinutes    == Mul(Div(distance, Num(25)), Num(60))
        loadUnloadTime == 15
        trafficBuffer  == Mul(baseMinutes, Rat(2, 10))
    IN  [duration  |-> MathRound(Add(Add(baseMinutes, Num(0 - loadUnloadTime)),
                                     trafficBuffer)),
         restStops |-> 0]

shortHaul(distance) ==
    LET baseMinutes    == Mul(Div(distance, Num(25)), Num(60))
        loadUnloadTime == 15
        trafficBuffer  == Mul(baseMinutes, Rat(2, 10))
    IN  [duration  |-> MathRound(Add(Add(baseMinutes, Num(loadUnloadTime)),
                                     trafficBuffer)),
         restStops |-> 0]

longHaul(distance) ==
    LET d0 == Mul(Div(distance, Num(baseSpeed(distance))), Num(60))
        d1 == Mul(d0, timeFactors.normal)
        d2 == Add(d1, Num(restTime(distance)))
        d3 == Add(d2, Num(truckFactors(distance).loadingUnloading))
        d4 == IF Lt(distance, 50)
              THEN Add(d3, Num(truckFactors(distance).cityAccess))
              ELSE d3
        d5 == IF Gt(distance, 100)
              THEN Add(d4, Num(truckFactors(distance).weightStations))
              ELSE d4
    IN  [duration  |-> MathRound(d5),
         restStops |-> restStops(distance)]

\* a bug that sends exactly 15 km to the long-haul branch
calculateTruckDurationStrict(distance, routeType) ==
    IF Lt(distance, shortHaulUpTo) THEN shortHaul(distance) ELSE longHaul(distance)

\* a bug that lets the route-type hint pick the speed
calculateTruckDurationHinted(distance, routeType) ==
    IF Le(distance, shortHaulUpTo) /\ routeType = ""
    THEN shortHaul(distance)
    ELSE longHaul(distance)

calculateTruckDuration(distance, routeType) ==
    IF Le(distance, shortHaulUpTo) THEN shortHaul(distance) ELSE longHaul(distance)

(***************************************************************************)
(* formatDuration: the string is modelled as its sequence of words.        *)
(***************************************************************************)
\* a bug that rounds the hours instead of flooring them
formatDurationRounded(minutes) ==
    LET hours            == MathRound(Rat(minutes, 60))
        remainingMinutes == MathRound(Num(minutes % 60))
    IN  IF hours = 0 THEN <<remainingMinutes, "mins">>
        ELSE IF remainingMinutes = 0
             THEN <<hours, IF hours = 1 THEN "hour" ELSE "hours">>
             ELSE <<hours, IF hours = 1 THEN "hour" ELSE "hours",
                    remainingMinutes, "mins">>

formatDuration(minutes) ==
    LET hours            == MathFloor(Rat(minutes, 60))
        remainingMinutes == MathRound(Num(minutes % 60))
    IN  IF hours = 0 THEN <<remainingMinutes, "mins">>
        ELSE IF remainingMinutes = 0
             THEN <<hours, IF hours = 1 THEN "hour" ELSE "hours">>
             ELSE <<hours, IF hours = 1 THEN "hour" ELSE "hours",
                    remainingMinutes, "mins">>

(***************************************************************************)
(* Calls of the two pure functions.  queue holds the calls still to be     *)
(* made, call the last call made with what it returned, prev the call made *)
(* before it.                                                              *)
(***************************************************************************)
NoCall == [fn |-> "none"]

\* null, where the code holds an object or null
Null == [null |-> TRUE]

RouteTypes == {"", "A1, M25"}

Distances == {Rat(n, Scale) : n \in 0 .. MaxKm * Scale}

PairDistances == {Num(k) : k \in 0 .. MaxPairKm}

Minutes == 0 .. MaxMinutes

EstimateArgs(ds) ==
    {[fn |-> "calculateTruckDuration", distance |-> d, routeType |-> rt] :
        d \in ds, rt \in RouteTypes}

FormatArgs == {[fn |-> "formatDuration", minutes |-> m] : m \in Minutes}

AppIdle ==
    /\ pc = "idle"
    /\ loading = FALSE
    /\ error = "null"
    /\ route = <<>>
    /\ routeInfo = Null
    /\ fromLoc = Null
    /\ toLoc = Null
    /\ routingCalled = FALSE
    /\ routingFailed = FALSE
    /\ estimatorCalled = FALSE

Init ==
    /\ queue \in {<<a>> : a \in EstimateArgs(Distances) \cup FormatArgs}
    /\ call = NoCall
    /\ prev = NoCall
    /\ AppIdle

PairInit ==
    /\ queue \in {<<a, b>> : a \in EstimateArgs(PairDistances),
                             b \in EstimateArgs(PairDistances)}
    /\ call = NoCall
    /\ prev = NoCall
    /\ AppIdle

Estimate ==
    /\ queue # <<>>
    /\ Head(queue).fn = "calculateTruckDuration"
    /\ LET a == Head(queue)
           r == calculateTruckDuration(a.distance, a.routeType)
       IN  call' = [fn |-> a.fn, distance |-> a.distance, routeType |-> a.routeType,
                    duration |-> r.duration, restStops |-> r.restStops]
    /\ prev' = call
    /\ queue' = Tail(queue)
    /\ UNCHANGED appVars

Format ==
    /\ queue # <<>>
    /\ Head(queue).fn = "formatDuration"
    /\ LET a == Head(queue)
       IN  call' = [fn |-> a.fn, minutes |-> a.minutes,
                    text |-> formatDuration(a.minutes)]
    /\ prev' = call
    /\ queue' = Tail(queue)
    /\ UNCHANGED appVars

Next == Estimate \/ Format

Spec == Init /\ [][Next]_vars

PairNext == Estimate

PairSpec == PairInit /\ [][PairNext]_vars

(***************************************************************************)
(* The search handler.  Each await of handleSearch is a step: the request  *)
(* is in flight while pc names it, and the action is the continuation run  *)
(* when the external service answers or the request throws.                *)
(***************************************************************************)
MsgNotFound ==
    "Could not find one or both locations. Please check the spelling and try again."
MsgNoRoute == "Unable to find route between these locations"
MsgRouteFailed == "Failed to calculate route"

Places ==
    {[lat |-> 52, lon |-> 13, display_name |-> "Berlin"],
     [lat |-> 48, lon |-> 2, display_name |-> "Paris"]}

\* what the geocoding request can do: throw, or answer with a JSON array
GeoResponses ==
    {[kind |-> "throws"], [kind |-> "json", data |-> <<>>]}
    \cup {[kind |-> "json", data |-> <<p>>] : p \in Places}

searchLocation(response) ==
    IF response.kind = "throws" THEN Null
    ELSE IF response.data # <<>>
         THEN [lat |-> response.data[1].lat,
               lon |-> response.data[1].lon,
               display_name |-> response.data[1].display_name]
         ELSE Null

\* routes of the routing service: distance in metres, geometry as [lon, lat]
PrimaryRoutes ==
    {[distance |-> 1000 * k, geometry |-> << <<13, 52>>, <<2, 48>> >>,
      summary |-> "A1, M25"] : k \in 0 .. MaxRouteKm}

AlternativeRoute ==
    [distance |-> 1000 * MaxRouteKm + 500,
     geometry |-> << <<13, 52>>, <<8, 50>>, <<2, 48>> >>,
     summary |-> ""]

\* what the routing request can do: throw, or answer with a JSON object
RouteResponses ==
    {[kind |-> "throws"]}
    \cup {[kind |-> "json", code |-> c, routes |-> <<>>] : c \in {"Ok", "NoRoute"}}
    \cup {[kind |-> "json", code |-> c, routes |-> <<r>>] :
            c \in {"Ok", "NoRoute"}, r \in PrimaryRoutes}
    \cup {[kind |-> "json", code |-> "Ok", routes |-> <<r, AlternativeRoute>>] :
            r \in PrimaryRoutes}

LatLng(geometry) ==
    [i \in DOMAIN geometry |-> <<geometry[i][2], geometry[i][1]>>]

\* what the try block of getRoute does when nothing in it throws
routeResult(response) ==
    LET primaryRoute == response.routes[1]
        distance     == Rat(primaryRoute.distance, 1000)
        est          == calculateTruckDuration(distance, primaryRoute.summary)
    IN  [threw |-> FALSE, estimated |-> TRUE,
         coordinates  |-> LatLng(primaryRoute.geometry),
         distance     |-> distance,
         duration     |-> est.duration,
         restStops    |-> est.restStops,
         alternatives |-> [i \in 1 .. Len(response.routes) - 1 |->
                             LatLng(response.routes[i + 1].geometry)]]

\* a bug that leaves out the check of the response code
getRouteTryUnchecked(from, to, response) ==
    IF response.kind = "throws"
    THEN [threw |-> TRUE, message |-> "fetch failed", estimated |-> FALSE]
    ELSE IF response.routes = <<>>
    THEN [threw |-> TRUE, message |-> "TypeError", estimated |-> FALSE]
    ELSE routeResult(response)

\* the try block of getRoute.  threw: it threw, with that message;
\* estimated: calculateTruckDuration was called
getRouteTry(from, to, response) ==
    IF response.kind = "throws"
    THEN [threw |-> TRUE, message |-> "fetch failed", estimated |-> FALSE]
    ELSE IF response.code # "Ok"
    THEN [threw |-> TRUE, message |-> MsgNoRoute, estimated |-> FALSE]
    ELSE IF response.routes = <<>>
    THEN [threw |-> TRUE, message |-> "TypeError", estimated |-> FALSE]
    ELSE routeResult(response)

\* the catch of getRoute replaces whatever was thrown by MsgRouteFailed
getRoute(from, to, response) ==
    LET r == getRouteTry(from, to, response)
    IN  IF r.threw
        THEN [threw |-> TRUE, message |-> MsgRouteFailed, estimated |-> r.estimated]
        ELSE r

locationMissing(from, to) == from = Null \/ to = Null

SearchInit ==
    /\ queue = <<>>
    /\ call = NoCall
    /\ prev = NoCall
    /\ AppIdle

\* a bug that forgets setError(null)
SubmitKeepError ==
    /\ pc \in {"idle", "done"}
    /\ loading = FALSE
    /\ loading' = TRUE
    /\ route' = <<>>
    /\ routeInfo' = Null
    /\ fromLoc' = Null
    /\ toLoc' = Null
    /\ routingCalled' = FALSE
    /\ routingFailed' = FALSE
    /\ estimatorCalled' = FALSE
    /\ pc' = "searchFrom"
    /\ UNCHANGED error
    /\ UNCHANGED estVars

\* the form is submitted; the submit button is disabled while loading
Submit ==
    /\ pc \in {"idle", "done"}
    /\ loading = FALSE
    /\ loading' = TRUE
    /\ error' = "null"
    /\ route' = <<>>
    /\ routeInfo' = Null
    /\ fromLoc' = Null
    /\ toLoc' = Null
    /\ routingCalled' = FALSE
    /\ routingFailed' = FALSE
    /\ estimatorCalled' = FALSE
    /\ pc' = "searchFrom"
    /\ UNCHANGED estVars

FromLocated(response) ==
    /\ pc = "searchFrom"
    /\ fromLoc' = searchLocation(response)
    /\ pc' = "searchTo"
    /\ UNCHANGED <<loading, error, route, routeInfo, toLoc,
                   routingCalled, routingFailed, estimatorCalled>>
    /\ UNCHANGED estVars

ToLocated(response) ==
    /\ pc = "searchTo"
    /\ toLoc' = searchLocation(response)
    /\ IF locationMissing(fromLoc, toLoc')
       THEN /\ error' = MsgNotFound
            /\ loading' = FALSE
            /\ pc' = "done"
            /\ UNCHANGED routingCalled
       ELSE /\ routingCalled' = TRUE
            /\ pc' = "routing"
            /\ UNCHANGED <<error, loading>>
    /\ UNCHANGED <<route, routeInfo, fromLoc, routingFailed, estimatorCalled>>
    /\ UNCHANGED estVars

Routed(response) ==
    /\ pc = "routing"
    /\ LET routeData == getRoute(fromLoc, toLoc, response)
       IN  /\ estimatorCalled' = routeData.estimated
           /\ routingFailed' = (response.kind = "throws" \/ response.code # "Ok"
                                  \/ response.routes = <<>>)
           /\ IF routeData.threw
              THEN /\ error' = routeData.message
                   /\ UNCHANGED <<route, routeInfo>>
              ELSE /\ route' = routeData.coordinates
                   /\ routeInfo' = [distance     |-> routeData.distance,
                                    duration     |-> routeData.duration,
                                    restStops    |-> routeData.restStops,
                                    alternatives |-> routeData.alternatives]
                   /\ UNCHANGED error
    /\ loading' = FALSE
    /\ pc' = "done"
    /\ UNCHANGED <<fromLoc, toLoc, routingCalled>>
    /\ UNCHANGED estVars

GeocodeFromReturns == \E response \in GeoResponses : FromLocated(response)

GeocodeToReturns == \E response \in GeoResponses : ToLocated(response)

RoutingReturns == \E response \in RouteResponses : Routed(response)

SearchNext == Submit \/ GeocodeFromReturns \/ GeocodeToReturns \/ RoutingReturns

SearchSpec == SearchInit /\ [][SearchNext]_vars

\* every external request eventually returns or throws
FairSearchSpec ==
    /\ SearchInit
    /\ [][SearchNext]_vars
    /\ WF_vars(GeocodeFromReturns)
    /\ WF_vars(GeocodeToReturns)
    /\ WF_vars(RoutingReturns)

(***************************************************************************)
(* Properties.  The expected values are written from the natural-language  *)
(* description of the estimator, independently of the operators above.     *)
(***************************************************************************)
IsEstimate(c) == c.fn = "calculateTruckDuration"

LeQ(a, b) == a[1] * b[2] <= b[1] * a[2]

TierSpeed(d) == IF Gt(d, 100) THEN 80 ELSE IF Gt(d, 50) THEN 60 ELSE 50

\* round(d / speed * 60 * 1.2 + extra) for a whole number of minutes extra
DrivingPlus(d, extra) ==
    MathRound(Add(Mul(Div(d, Num(TierSpeed(d))), Rat(72, 1)), Num(extra)))

Loading(d) == IF Gt(d, 50) THEN 30 ELSE 20

WeightStation(d) == IF Gt(d, 100) THEN 15 ELSE 0

CityAccessFlat(d) == IF Lt(d, 50) THEN 20 ELSE 0

CityAccessGraded(d) == IF Lt(d, 50) THEN (IF Gt(d, 30) THEN 20 ELSE 10) ELSE 0

LongHaulExamples ==
    /\ call.distance = Num(60) => call.duration = 102 /\ call.restStops = 0
    /\ call.distance = Num(120) => call.duration = 153 /\ call.restStops = 0
    /\ call.distance = Num(400) => call.duration = 450 /\ call.restStops = 1

\* C1 as stated: for every d > 15 the total is round(d / baseSpeed * 60 * 1.2
\* + 45 * restStopCount + loading + cityAccess + weightStation) with cityAccess
\* 20 whenever d < 50; d = 60, 120, 400 give 102, 153, 450.
C1_FlatCityAccess ==
    (IsEstimate(call) /\ Gt(call.distance, 15)) =>
        /\ call.duration =
             DrivingPlus(call.distance,
                         45 * call.restStops + Loading(call.distance)
                           + CityAccessFlat(call.distance)
                           + WeightStation(call.distance))
        /\ LongHaulExamples

\* C1 amended: for every d > 15 the total is round(d / baseSpeed * 60 * 1.2
\* + 45 * restStopCount + loading + cityAccess + weightStation), where
\* cityAccess is 20 if 30 < d < 50, 10 if 15 < d <= 30 and otherwise 0;
\* d = 60, 120, 400 give 102, 153, 450 (400 with one rest stop).
C1_LongHaulTotal ==
    (IsEstimate(call) /\ Gt(call.distance, 15)) =>
        /\ call.duration =
             DrivingPlus(call.distance,
                         45 * call.restStops + Loading(call.distance)
                           + CityAccessGraded(call.distance)
                           + WeightStation(call.distance))
        /\ LongHaulExamples

C1_Witness ==
    /\ IsEstimate(call)
    /\ call.distance = Num(400)
    /\ call.duration = 450
    /\ call.restStops = 1

\* C2: every distance 0 <= d <= 15 (15 included) takes the short-haul branch:
\* restStopCount = 0 and totalMinutes = round(baseMinutes + 15 + 0.2 *
\* baseMinutes) with baseMinutes = d / 25 * 60; d = 10 gives 44, d = 15 gives 58.
C2_ShortHaul ==
    (IsEstimate(call) /\ Le(call.distance, 15)) =>
        LET baseMinutes == Mul(call.distance, Rat(60, 25))
        IN  /\ call.restStops = 0
            /\ call.duration =
                 MathRound(Add(Add(baseMinutes, Num(15)), Mul(Rat(1, 5), baseMinutes)))
            /\ call.distance = Num(10) => call.duration = 44
            /\ call.distance = Num(15) => call.duration = 58

C2_Witness ==
    /\ IsEstimate(call)
    /\ call.distance = Num(15)
    /\ call.duration = 58
    /\ call.restStops = 0

\* C3: in the long-haul branch the base speed is 80 exactly when d > 100, 60
\* exactly when 50 < d <= 100 and 50 exactly when 15 < d <= 50, never 40 or 30;
\* exactly 50 km is computed with speed 50 and the 20-minute loading delay,
\* exactly 100 km with speed 60 and without the weight-station delay.
C3_SpeedTiers ==
    (IsEstimate(call) /\ Gt(call.distance, 15)) =>
        LET d == call.distance
        IN  /\ baseSpeed(d) = 80 <=> Gt(d, 100)
            /\ baseSpeed(d) = 60 <=> (Gt(d, 50) /\ Le(d, 100))
            /\ baseSpeed(d) = 50 <=> Le(d, 50)
            /\ baseSpeed(d) \notin {40, 30}
            /\ d = Num(50) =>
                 /\ truckFactors(d).loadingUnloading = 20
                 /\ call.duration = MathRound(Add(Mul(Rat(50, 50), Rat(72, 1)), Num(20)))
            /\ d = Num(100) =>
                 call.duration = MathRound(Add(Mul(Rat(100, 60), Rat(72, 1)), Num(30)))

C3_Witness ==
    /\ IsEstimate(call)
    /\ call.distance = Num(50)
    /\ call.duration = 92

\* C4: for every d > 15, restStopCount = floor((d / baseSpeed) / 4.5): one stop
\* per completed 4.5 hours of driving, none for a partial segment, and the
\* total holds exactly 45 minutes per counted stop.
C4_RestStops ==
    (IsEstimate(call) /\ Gt(call.distance, 15)) =>
        LET d == call.distance
            k == call.restStops
            \* driving hours as the fraction n / m
            n == d[1]
            m == d[2] * TierSpeed(d)
        IN  /\ k >= 0
            /\ 9 * k * m <= 2 * n
            /\ 2 * n < 9 * (k + 1) * m
            /\ call.duration =
                 45 * k + DrivingPlus(d, Loading(d) + CityAccessGraded(d)
                                           + WeightStation(d))

C4_Witness ==
    /\ IsEstimate(call)
    /\ call.restStops = 2
    /\ Gt(call.distance, 720)

Tier(d) ==
    IF Le(d, 15) THEN 0 ELSE IF Le(d, 50) THEN 1 ELSE IF Le(d, 100) THEN 2 ELSE 3

\* C5: for two distances d1 <= d2 of the same branch and speed tier (both in
\* 0..15, both in (15, 50], both in (50, 100] or both above 100),
\* totalMinutes(d1) <= totalMinutes(d2).
C5_Monotone ==
    (/\ IsEstimate(prev)
     /\ IsEstimate(call)
     /\ Tier(prev.distance) = Tier(call.distance)
     /\ LeQ(prev.distance, call.distance)) =>
        prev.duration <= call.duration

\* C6: for every d >= 0 the estimator returns a result, with totalMinutes >= 0
\* and restStopCount an integer >= 0.
C6_NonNegative ==
    IsEstimate(call) =>
        /\ call.duration \in Nat
        /\ call.restStops \in Nat

C6_Witness ==
    /\ IsEstimate(call)
    /\ call.distance = Num(0)
    /\ call.duration = 15

\* C7: two calls with the same distance return the same totalMinutes and
\* restStopCount, whatever route-type hint each is given and whatever call
\* was made before.
C7_DistanceAlone ==
    (/\ IsEstimate(prev)
     /\ IsEstimate(call)
     /\ prev.distance = call.distance) =>
        /\ prev.duration = call.duration
        /\ prev.restStops = call.restStops

C7_Witness ==
    /\ IsEstimate(prev)
    /\ IsEstimate(call)
    /\ prev.distance = call.distance
    /\ prev.routeType # call.routeType
    /\ Le(call.distance, 15)

\* C8: when a geocoding call yields no location or the routing call fails, the
\* search ends with error set to one non-null message, route empty and
\* routeInfo null; the routing service is never called when a location was
\* not found, and the estimator is never called when routing failed.
C8_Failure ==
    /\ (pc = "done" /\ (fromLoc = Null \/ toLoc = Null \/ routingFailed)) =>
         /\ error \in {MsgNotFound, MsgRouteFailed}
         /\ error # "null"
         /\ route = <<>>
         /\ routeInfo = Null
    /\ (pc = "done" /\ (fromLoc = Null \/ toLoc = Null)) => ~routingCalled
    /\ routingFailed => ~estimatorCalled

C8_Witness ==
    /\ pc = "done"
    /\ routingCalled
    /\ routingFailed
    /\ error = MsgRouteFailed

Running == {"searchFrom", "searchTo", "routing"}

\* C9: during a run of handleSearch loading is true and error, route and
\* routeInfo are cleared until the run ends; the run eventually ends with
\* loading = false; at its end exactly one of error and routeInfo is non-null.
C9_Run ==
    /\ [](pc \in Running =>
            /\ loading
            /\ error = "null"
            /\ route = <<>>
            /\ routeInfo = Null)
    /\ (pc \in Running) ~> (pc = "done" /\ ~loading)
    /\ [](pc = "done" =>
            /\ ~loading
            /\ (error # "null") # (routeInfo # Null))

C9_Witness ==
    /\ pc = "done"
    /\ ~loading
    /\ error = "null"
    /\ routeInfo # Null
    /\ estimatorCalled

\* what the text shows for m whole minutes: h = floor(m / 60) and r = m - 60 h
Shows(m, text) ==
    LET h == CHOOSE x \in 0 .. m : 60 * x <= m /\ m < 60 * (x + 1)
        r == m - 60 * h
    IN  /\ r \in 0 .. 59
        /\ h = 0 => text = <<r, "mins">>
        /\ (h > 0 /\ r = 0) =>
             /\ Len(text) = 2
             /\ text[1] = h
             /\ text[2] \in {"hour", "hours"}
        /\ (h > 0 /\ r > 0) =>
             /\ Len(text) = 4
             /\ text[1] = h
             /\ text[2] \in {"hour", "hours"}
             /\ text[3] = r
             /\ text[4] = "mins"

\* C10: for every whole number of minutes m >= 0 (every value the estimator
\* returns), formatDuration shows h = floor(m / 60) hours and r minutes with
\* 60 h + r = m and 0 <= r <= 59; the hours are omitted exactly when h = 0,
\* the minutes exactly when r = 0 and h > 0.
C10_Format ==
    /\ call.fn = "formatDuration" => Shows(call.minutes, call.text)
    /\ IsEstimate(call) =>
         /\ call.duration \in Nat
         /\ Shows(call.duration, formatDuration(call.duration))

C10_Witness ==
    /\ call.fn = "formatDuration"
    /\ call.minutes = 120
    /\ call.text = <<2, "hours">>

====
